---------------------------- MODULE Spec2Model ----------------------------
(***************************************************************************)
(* Model of the C64 Bloom filter spell checker (johnwbyrd/bloomer).        *)
(*                                                                         *)
(* Two snapshots of the program are modelled side by side:                 *)
(*   "REL"  src/src/spellcheck.c  (REL file, 254-byte records, POSITION)   *)
(*   "SEQ"  src/spellcheck.c      (SEQ file, 256-byte records, reopen+skip)*)
(* The variable `version` is fixed by Init and selects which program runs. *)
(***************************************************************************)
EXTENDS Integers, Sequences, FiniteSets, TLC

(***************************************************************************)
(* Bounds of the model.                                                    *)
(***************************************************************************)
\* Bits in the filter (bloom_config.h is not part of the sources).
BLOOM_SIZE_BITS == 6000
\* Longest word typed at the prompt.
MaxWordLen == 1

(***************************************************************************)
(* Program constants.                                                      *)
(***************************************************************************)
NUM_HASH_FUNCTIONS == 5
RECORD_SIZE_REL == 254
RECORD_SIZE_SEQ == 256
BITS_PER_BYTE == 8
CBM_CMD_CHANNEL == 15
PROMPT_LENGTH == 18
CHECKING_LENGTH == 8
bloom_lfn == 2
bloom_secondary == 2

RECORD_SIZE(v) == IF v = "REL" THEN RECORD_SIZE_REL ELSE RECORD_SIZE_SEQ

(***************************************************************************)
(* uint32_t arithmetic.  A uint32_t is kept as two 16-bit halves so that   *)
(* no intermediate value leaves the range of TLC's integers.              *)
(***************************************************************************)
W16 == 256 * 256

U32(h, l) == [hi |-> h, lo |-> l]

\* A small natural number (< 2^16) as uint32_t.
U32Of(n) == U32(0, n)

\* An addition that loses the carry out of the low half.
Add32_no_carry(a, b) == U32((a.hi + b.hi) % W16, (a.lo + b.lo) % W16)

Add32(a, b) ==
    LET s == a.lo + b.lo
    IN  U32((a.hi + b.hi + (s \div W16)) % W16, s % W16)

\* The full product of two 16-bit values, as a uint32_t.
Mul16(x, y) ==
    LET p0 == (x % 256) * y
        p1 == (x \div 256) * y
        s  == (p1 % 256) * 256 + p0
    IN  U32(((p1 \div 256) + (s \div W16)) % W16, s % W16)

Mul32(a, b) ==
    LET ll == Mul16(a.lo, b.lo)
    IN  U32((ll.hi + Mul16(a.hi, b.lo).lo + Mul16(a.lo, b.hi).lo) % W16, ll.lo)

RECURSIVE Pow2(_)
Pow2(n) == IF n = 0 THEN 1 ELSE 2 * Pow2(n - 1)

\* a << n, 0 <= n < 32
Shl32(a, n) ==
    Mul32(a, IF n < 16 THEN U32(0, Pow2(n)) ELSE U32(Pow2(n - 16), 0))

\* a >> n, 0 < n < 16
Shr32(a, n) ==
    U32(a.hi \div Pow2(n),
        (a.lo \div Pow2(n)) + (a.hi % Pow2(n)) * Pow2(16 - n))

\* a - b (mod 2^32)
Sub32(a, b) ==
    LET l == a.lo - b.lo
        borrow == IF l < 0 THEN 1 ELSE 0
    IN  U32((a.hi - b.hi - borrow + 2 * W16) % W16, (l + W16) % W16)

RECURSIVE XorN(_, _, _)
\* bitwise exclusive or of two n-bit values
XorN(x, y, n) ==
    IF n = 0 THEN 0
    ELSE ((x + y) % 2) + 2 * XorN(x \div 2, y \div 2, n - 1)

Xor32(a, b) == U32(XorN(a.hi, b.hi, 16), XorN(a.lo, b.lo, 16))

\* a % m for a modulus m < 2^15
Mod32(a, m) == ((((a.hi % m) * (W16 % m)) % m) + a.lo) % m

(***************************************************************************)
(* Hash functions.  A word is a sequence of character codes (the C string  *)
(* without its terminating NUL); seed is a uint8_t.                        *)
(***************************************************************************)
FNV_OFFSET == U32(33052, 40389)      \* 2166136261
FNV_PRIME == U32(256, 403)           \* 16777619
DJB2_INIT == U32(0, 5381)            \* 5381
MURMUR_INIT == U32(38727, 45708)     \* 0x9747b28c
MURMUR_MULT == U32(23505, 59797)     \* 0x5bd1e995

RECURSIVE fnv1a_loop(_, _)
fnv1a_loop(hash, w) ==
    IF w = <<>> THEN hash
    ELSE fnv1a_loop(Mul32(Xor32(hash, U32Of(Head(w))), FNV_PRIME), Tail(w))

hash_fnv1a(w, seed) == fnv1a_loop(Add32(FNV_OFFSET, U32Of(seed)), w)

RECURSIVE djb2_loop(_, _)
djb2_loop(hash, w) ==
    IF w = <<>> THEN hash
    ELSE djb2_loop(Add32(Add32(Shl32(hash, 5), hash), U32Of(Head(w))), Tail(w))

hash_djb2(w, seed) == djb2_loop(Add32(DJB2_INIT, U32Of(seed)), w)

RECURSIVE sdbm_loop(_, _)
sdbm_loop(hash, w) ==
    IF w = <<>> THEN hash
    ELSE sdbm_loop(Sub32(Add32(Add32(U32Of(Head(w)), Shl32(hash, 6)),
                               Shl32(hash, 16)), hash),
                   Tail(w))

hash_sdbm(w, seed) == sdbm_loop(U32Of(seed), w)

RECURSIVE jenkins_loop(_, _)
jenkins_loop(hash, w) ==
    IF w = <<>> THEN hash
    ELSE LET h1 == Add32(hash, U32Of(Head(w)))
             h2 == Add32(h1, Shl32(h1, 10))
             h3 == Xor32(h2, Shr32(h2, 6))
         IN  jenkins_loop(h3, Tail(w))

hash_jenkins(w, seed) ==
    LET h0 == jenkins_loop(U32Of(seed), w)
        h1 == Add32(h0, Shl32(h0, 3))
        h2 == Xor32(h1, Shr32(h1, 11))
    IN  Add32(h2, Shl32(h2, 15))

RECURSIVE murmur_loop(_, _)
murmur_loop(hash, w) ==
    IF w = <<>> THEN hash
    ELSE LET h1 == Xor32(hash, U32Of(Head(w)))
             h2 == Mul32(h1, MURMUR_MULT)
         IN  murmur_loop(Xor32(h2, Shr32(h2, 15)), Tail(w))

hash_murmur(w, seed) == murmur_loop(Add32(U32Of(seed), MURMUR_INIT), w)

\* hash_functions[i](word, seed), i = 0 .. NUM_HASH_FUNCTIONS-1
hash_functions(idx, w, seed) ==
    CASE idx = 0 -> hash_fnv1a(w, seed)
      [] idx = 1 -> hash_djb2(w, seed)
      [] idx = 2 -> hash_sdbm(w, seed)
      [] idx = 3 -> hash_jenkins(w, seed)
      [] idx = 4 -> hash_murmur(w, seed)

\* hash_functions[i](word, i) % BLOOM_SIZE_BITS
BitPosition(w, idx) == Mod32(hash_functions(idx, w, idx), BLOOM_SIZE_BITS)

\* A table (a function computed once and then only looked up): comparing
\* the function with itself makes TLC tabulate it.
Table(t) == IF t = t THEN t ELSE t

(***************************************************************************)
(* Words and persisted filters.                                            *)
(***************************************************************************)
Alphabet == {65, 66}                 \* 'A', 'B'

Words == UNION {[1..n -> Alphabet] : n \in 1..MaxWordLen}

HashIndex == 0..(NUM_HASH_FUNCTIONS - 1)

\* The bit positions of every word, computed once.
bit_position_table ==
    Table([w \in Words |-> [idx \in HashIndex |-> BitPosition(w, idx)]])

\* The persisted filter is the set of bit indices that are 1 in BLOOM.DAT.
\* An external builder produces it from a dictionary: it sets all K bits of
\* every word of the dictionary.
BuildFilter(D) == UNION {{bit_position_table[w][idx] : idx \in HashIndex} : w \in D}

\* The filters considered: the empty one, the one built from each word, and
\* each of these with one of the word's bits left at zero.
Filters ==
    {BuildFilter({})}
        \cup {BuildFilter({w}) : w \in Words}
        \cup {BuildFilter({w}) \ {bit_position_table[w][idx]} :
                 w \in Words, idx \in HashIndex}

\* Byte k of the flat bit array: bit b lives in byte b/8 at bit b%8, LSB first.
FlatByte(f, k) ==
    LET bit(j) == IF (k * BITS_PER_BYTE + j) \in f THEN Pow2(j) ELSE 0
    IN  bit(0) + bit(1) + bit(2) + bit(3) + bit(4) + bit(5) + bit(6) + bit(7)

\* Number of records of the file that holds BLOOM_SIZE_BITS bits.
NumRecords(v) ==
    (((BLOOM_SIZE_BITS + BITS_PER_BYTE - 1) \div BITS_PER_BYTE) + RECORD_SIZE(v) - 1)
        \div RECORD_SIZE(v)

Records(v) == 0..(NumRecords(v) - 1)

\* The bytes of logical record n: flat bytes n*R .. n*R + R-1.
RecordBytes(f, v, n) ==
    [j \in 0..(RECORD_SIZE(v) - 1) |-> FlatByte(f, n * RECORD_SIZE(v) + j)]

\* Every record of every filter, computed once.
record_table ==
    Table([f \in Filters |->
             [v \in {"REL", "SEQ"} |-> [n \in Records(v) |-> RecordBytes(f, v, n)]]])

\* static uint8_t record_buffer[RECORD_SIZE]: zero-initialised
EmptyBuffer(v) == [j \in 0..(RECORD_SIZE(v) - 1) |-> 0]

\* Conversions between int16_t and uint16_t (int is 16 bits wide on the target).
ToUint16(x) == x % W16

\* A conversion to int16_t that stops at INT16_MAX instead of wrapping.
ToInt16_saturating(x) ==
    IF (x % W16) >= (W16 \div 2) THEN (W16 \div 2) - 1 ELSE x % W16

ToInt16(x) == IF (x % W16) >= (W16 \div 2) THEN (x % W16) - W16 ELSE x % W16

\* A cache test that never recognises the cached record.
cache_miss_always(rec, cur) == TRUE

\* rec != current_record, a uint16_t against an int16_t: both operands are
\* converted to unsigned int.
cache_miss(rec, cur) == rec # ToUint16(cur)

\* A bit test that counts the bits of a byte from the most significant one.
TestBit_msb_first(buf, byte, bit) == ((buf[byte] \div Pow2(7 - bit)) % 2) = 1

\* (record_buffer[byte] & (1 << bit)) != 0
TestBit(buf, byte, bit) == ((buf[byte] \div Pow2(bit)) % 2) = 1

\* F applied to the value of v, which is computed once.
With(v, F(_)) == CHOOSE z \in {F(y) : y \in {v}} : TRUE

\* A store operation as it appears on the transport.
Op(name, args) == [op |-> name, arg |-> args]

\* Static debug_mode flag: never set by the program.
debug_mode == FALSE

(***************************************************************************)
(* What the transport can answer.                                          *)
(***************************************************************************)
\* Return value of a KERNAL call (open, chkin, chkout): 0 is success.
KernalStatus == {0, 5}

\* Decoded two-digit DOS status (0 = OK, 50 = RECORD NOT PRESENT).
DosStatus == {0, 50}

\* Byte index at which a sequential read reports a nonzero status
\* (first, middle or last byte of a record), or -1 for an undisturbed read.
ReadFailPoints == {-1, 0, RECORD_SIZE_SEQ \div 2, RECORD_SIZE_SEQ - 1}

(***************************************************************************)
(* REL version: src/src/spellcheck.c                                       *)
(***************************************************************************)
\* A status check that accepts any code of ok_codes, whatever num_ok_codes.
check_dos_status_whole_list(err, ok_codes, num_ok_codes) ==
    \/ err = 0
    \/ \E k \in DOMAIN ok_codes : ok_codes[k] = err

\* is_ok = (err == 0) or err is one of the first num_ok_codes of ok_codes
check_dos_status(err, ok_codes, num_ok_codes) ==
    \/ err = 0
    \/ \E k \in 1..num_ok_codes : ok_codes[k] = err

RelOpenEnv ==
    [open_cmd : KernalStatus, cmd_status : DosStatus,
     open_data : KernalStatus, data_status : DosStatus]

bloom_open(cur, env) ==
    IF env.open_cmd # 0
    THEN [ret |-> FALSE, current_record |-> cur, open_files |-> {}]
    ELSE IF env.open_data # 0
    THEN [ret |-> FALSE, current_record |-> cur, open_files |-> {CBM_CMD_CHANNEL}]
    ELSE IF ~check_dos_status(env.data_status, <<>>, 0)
    THEN [ret |-> FALSE, current_record |-> cur,
          open_files |-> {CBM_CMD_CHANNEL, bloom_lfn}]
    ELSE [ret |-> TRUE, current_record |-> -1,
          open_files |-> {CBM_CMD_CHANNEL, bloom_lfn}]

bloom_close(cur) == [current_record |-> cur, open_files |-> {}]

\* The record the drive delivers on the data channel after a POSITION
\* command it accepted: 1-based record number, little-endian.
DriveRecord(cmd) == (cmd[3] + 256 * cmd[4]) - 1

\* The RECORD_SIZE bytes the data channel delivers once the drive is
\* positioned at record n (0-based); zero bytes if the file has no such record.
DriveData(f, n) ==
    IF n \in Records("REL") THEN record_table[f]["REL"][n] ELSE EmptyBuffer("REL")

\* A POSITION command that carries the 0-based record number.
position_command_zero_based(rec) ==
    <<80, bloom_secondary, rec % 256, (rec \div 256) % 256, 1>>

\* The five bytes bloom_read_bit writes to the command channel: 'P', the
\* channel, dos_rec & 0xFF, (dos_rec >> 8) & 0xFF, 1, where dos_rec = rec + 1.
position_command(rec) ==
    LET dos_rec == ToUint16(rec + 1)
    IN  <<80, bloom_secondary, dos_rec % 256, (dos_rec \div 256) % 256, 1>>

\* What the transport answers during one bit check: the status of chkout,
\* the DOS status after the POSITION command, the record the data channel
\* delivers when the drive refused the command, the status of chkin.
\* Answers to questions the code does not get to ask are left at 0.
RelReadOk == [chkout |-> 0, pos_status |-> 0, drive |-> 0, chkin |-> 0]

RelReadEnv(v) ==
    {RelReadOk}
        \cup {[RelReadOk EXCEPT !.chkout = st] : st \in KernalStatus \ {0}}
        \cup {[RelReadOk EXCEPT !.pos_status = c, !.chkin = st] :
                 c \in DosStatus, st \in KernalStatus \ {0}}
        \cup {[RelReadOk EXCEPT !.pos_status = c, !.drive = d] :
                 c \in DosStatus \ {0}, d \in Records(v)}

\* One call of bloom_read_bit.  The result carries the return value, the
\* cache after the call, what the call did on the transport and the
\* coordinates (rec, byte, bit) it derived from bit_pos.
bloom_read_bit(bit_pos, cur, buf, f, env) ==
    LET byte_off == bit_pos \div BITS_PER_BYTE
        bit_off == bit_pos % BITS_PER_BYTE
        rec == ToUint16(byte_off \div RECORD_SIZE_REL)
        byte_in_rec == ToUint16(byte_off % RECORD_SIZE_REL)
        cmd == position_command(rec)
        position == <<Op("chkout", <<CBM_CMD_CHANNEL>>), Op("bsout", cmd),
                      Op("status", <<env.pos_status>>)>>
        data == IF env.pos_status = 0
                THEN DriveData(f, DriveRecord(cmd))
                ELSE DriveData(f, env.drive)
    IN  IF cache_miss(rec, cur)
        THEN IF env.chkout # 0
             THEN [ret |-> FALSE, current_record |-> cur, record_buffer |-> buf,
                   ops |-> <<Op("chkout", <<CBM_CMD_CHANNEL>>)>>,
                   failed |-> TRUE, loaded |-> FALSE, periods |-> 0, rec |-> rec,
                   byte |-> byte_in_rec, bit |-> bit_off]
             ELSE IF env.chkin # 0
             THEN [ret |-> FALSE, current_record |-> cur, record_buffer |-> buf,
                   ops |-> position \o <<Op("chkin", <<bloom_lfn>>)>>,
                   failed |-> TRUE, loaded |-> FALSE,
                   periods |-> IF debug_mode THEN 0 ELSE 1, rec |-> rec,
                   byte |-> byte_in_rec, bit |-> bit_off]
             ELSE [ret |-> TestBit(data, byte_in_rec, bit_off),
                   current_record |-> ToInt16(rec), record_buffer |-> data,
                   ops |-> position \o <<Op("chkin", <<bloom_lfn>>),
                                         Op("basin", <<RECORD_SIZE_REL>>)>>,
                   failed |-> (env.pos_status # 0), loaded |-> TRUE,
                   periods |-> IF debug_mode THEN 0 ELSE 1, rec |-> rec,
                   byte |-> byte_in_rec, bit |-> bit_off]
        ELSE [ret |-> TestBit(buf, byte_in_rec, bit_off),
              current_record |-> cur, record_buffer |-> buf, ops |-> <<>>,
              failed |-> FALSE, loaded |-> FALSE, periods |-> 0, rec |-> rec,
                   byte |-> byte_in_rec, bit |-> bit_off]

\* An inner loop whose swap forgets to store temp into bit_positions[j + 1].
RECURSIVE sort_inner_lossy(_, _, _)
sort_inner_lossy(a, j, lim) ==
    IF j >= lim THEN a
    ELSE sort_inner_lossy(IF a[j] < a[j + 1]
                          THEN [a EXCEPT ![j] = a[j + 1]]
                          ELSE a,
                          j + 1, lim)

\* The inner loop of the bubble sort: j = 0 .. lim-1
RECURSIVE sort_inner(_, _, _)
sort_inner(a, j, lim) ==
    IF j >= lim THEN a
    ELSE sort_inner(IF a[j] < a[j + 1]
                    THEN [a EXCEPT ![j] = a[j + 1], ![j + 1] = a[j]]
                    ELSE a,
                    j + 1, lim)

\* A sort that stops after the first pass of its inner loop.
sort_outer_one_pass(a, k) == sort_inner(a, 0, NUM_HASH_FUNCTIONS - 1)

\* The outer loop: i = 0 .. NUM_HASH_FUNCTIONS-2
RECURSIVE sort_outer(_, _)
sort_outer(a, k) ==
    IF k >= NUM_HASH_FUNCTIONS - 1 THEN a
    ELSE sort_outer(sort_inner(a, 0, NUM_HASH_FUNCTIONS - 1 - k), k + 1)

\* bit_positions[] of a check_word that leaves out the sort.
unsorted_positions(w) == bit_position_table[w]

\* bit_positions[] of check_word after the sort
sorted_positions(w) == sort_outer(bit_position_table[w], 0)

sorted_table == Table([w \in Words |-> sorted_positions(w)])

(***************************************************************************)
(* SEQ version: src/spellcheck.c                                           *)
(* m is the part of the machine the I/O functions work on:                 *)
(*   current_record, record_buffer, open_files, pos (offset of the next    *)
(*   byte the drive delivers), ops (what was done on the transport),       *)
(*   failed (some store operation failed).                                 *)
(***************************************************************************)
SeqOpenEnv == [open : KernalStatus, chkin : KernalStatus]

\* What the transport answers during one bit check: the status of open and
\* of chkin, whether a byte skipped by the seek reports a nonzero status,
\* the byte index at which the record read reports one (-1: none) and
\* whether that byte still carried data.
SeqReadOk ==
    [open |-> 0, chkin |-> 0, seek_fail |-> FALSE, read_fail |-> -1,
     fail_byte |-> "data"]

SeqReadEnv ==
    {SeqReadOk}
        \cup {[SeqReadOk EXCEPT !.open = st] : st \in KernalStatus \ {0}}
        \cup {[SeqReadOk EXCEPT !.chkin = st] : st \in KernalStatus \ {0}}
        \cup {[SeqReadOk EXCEPT !.seek_fail = TRUE]}
        \cup {[SeqReadOk EXCEPT !.read_fail = k, !.fail_byte = b] :
                 k \in ReadFailPoints \ {-1}, b \in {"data", "none"}}

close_bloom_file(m) ==
    [m EXCEPT !.current_record = -1,
              !.open_files = @ \ {bloom_lfn},
              !.ops = @ \o <<Op("clrch", <<>>), Op("close", <<bloom_lfn>>)>>]

open_bloom_file(m, env) ==
    LET ops1 == m.ops \o <<Op("close", <<bloom_lfn>>), Op("open", <<bloom_lfn>>)>>
    IN  IF env.open # 0
        THEN [ret |-> FALSE,
              m |-> [m EXCEPT !.ops = ops1, !.open_files = @ \ {bloom_lfn},
                              !.failed = TRUE]]
        ELSE IF env.chkin # 0
        THEN [ret |-> FALSE,
              m |-> [m EXCEPT !.ops = ops1 \o <<Op("chkin", <<bloom_lfn>>),
                                                Op("close", <<bloom_lfn>>)>>,
                              !.open_files = @ \ {bloom_lfn}, !.failed = TRUE]]
        ELSE [ret |-> TRUE,
              m |-> [m EXCEPT !.ops = ops1 \o <<Op("chkin", <<bloom_lfn>>)>>,
                              !.open_files = @ \cup {bloom_lfn},
                              !.pos = 0, !.current_record = -1]]

seek_to_record(record_num, m, env) ==
    IF ~cache_miss(record_num, m.current_record)
    THEN [ret |-> TRUE, m |-> m]
    ELSE LET byte_offset == record_num * RECORD_SIZE_SEQ
             seek(o) ==
                 IF ~o.ret THEN [ret |-> FALSE, m |-> o.m]
                 ELSE IF env.seek_fail /\ byte_offset > 0
                 THEN [ret |-> FALSE,
                       m |-> [o.m EXCEPT !.ops = @ \o <<Op("basin", <<>>)>>,
                                         !.failed = TRUE]]
                 ELSE [ret |-> TRUE,
                       m |-> [o.m EXCEPT !.ops = @ \o <<Op("basin", <<byte_offset>>)>>,
                                         !.pos = byte_offset,
                                         !.current_record = ToInt16(record_num)]]
         IN  With(open_bloom_file(close_bloom_file(m), env), seek)

\* The RECORD_SIZE bytes the drive delivers from offset pos on; zero bytes
\* past the last record of the file.
StreamBytes(f, pos) ==
    IF (pos \div RECORD_SIZE_SEQ) \in Records("SEQ")
    THEN record_table[f]["SEQ"][pos \div RECORD_SIZE_SEQ]
    ELSE EmptyBuffer("SEQ")

read_current_record(m, f, env) ==
    LET k == env.read_fail
        read(data) ==
            IF k = -1
            THEN [ret |-> TRUE,
                  m |-> [m EXCEPT !.record_buffer = data,
                                  !.pos = @ + RECORD_SIZE_SEQ,
                                  !.ops = @ \o <<Op("basin", <<RECORD_SIZE_SEQ>>)>>]]
            ELSE [ret |-> FALSE,
                  m |-> [m EXCEPT !.record_buffer =
                                     [j \in 0..(RECORD_SIZE_SEQ - 1) |->
                                        IF j < k THEN data[j]
                                        ELSE IF j = k /\ env.fail_byte = "data" THEN data[j]
                                        ELSE IF j = k THEN 0
                                        ELSE @[j]],
                                  !.pos = @ + k + 1,
                                  !.ops = @ \o <<Op("basin", <<k + 1>>)>>,
                                  !.failed = TRUE]]
    IN  With(StreamBytes(f, m.pos), read)

\* One call of check_bit; the result has the shape of bloom_read_bit's.
check_bit(bit_position, cur, buf, files, f, env) ==
    LET byte_offset == bit_position \div 8
        bit_offset == bit_position % 8
        record_num == ToUint16(byte_offset \div RECORD_SIZE_SEQ)
        byte_in_record == ToUint16(byte_offset % RECORD_SIZE_SEQ)
        m0 == [current_record |-> cur, record_buffer |-> buf, open_files |-> files,
               pos |-> 0, ops |-> <<>>, failed |-> FALSE]
        out(ret, m, loaded) ==
            [ret |-> ret, current_record |-> m.current_record,
             record_buffer |-> m.record_buffer, ops |-> m.ops,
             failed |-> m.failed, loaded |-> loaded, periods |-> 0,
             rec |-> record_num, byte |-> byte_in_record, bit |-> bit_offset,
             open_files |-> m.open_files]
        read(r) ==
            IF ~r.ret THEN out(FALSE, r.m, FALSE)
            ELSE out(TestBit(r.m.record_buffer, byte_in_record, bit_offset), r.m, TRUE)
        seek(s) ==
            IF ~s.ret THEN out(FALSE, s.m, FALSE)
            ELSE With(read_current_record(s.m, f, env), read)
    IN  IF cache_miss(record_num, cur)
        THEN With(seek_to_record(record_num, m0, env), seek)
        ELSE out(TestBit(buf, byte_in_record, bit_offset), m0, FALSE)

(***************************************************************************)
(* check_word and main, both versions.                                     *)
(***************************************************************************)
\* A loop that does not return on a false bit check but goes on to the
\* remaining positions and returns what the last bit check returned.
check_word_loop_no_exit(ret, idx) ==
    IF idx + 1 < NUM_HASH_FUNCTIONS
    THEN [returned |-> FALSE, value |-> TRUE, i |-> idx + 1]
    ELSE [returned |-> TRUE, value |-> ret, i |-> IF ret THEN idx + 1 ELSE idx]

\* One pass of the bit-check loop of check_word, given what the bit check
\* returned for bit_positions[idx]: return false at once on a false bit
\* check, go on to the next position otherwise, return true after the last.
check_word_loop(ret, idx) ==
    IF ~ret THEN [returned |-> TRUE, value |-> FALSE, i |-> idx]
    ELSE IF idx + 1 < NUM_HASH_FUNCTIONS
    THEN [returned |-> FALSE, value |-> TRUE, i |-> idx + 1]
    ELSE [returned |-> TRUE, value |-> TRUE, i |-> idx + 1]

\* What main prints for the value check_word returned.
main_report(v, value) ==
    IF v = "REL" THEN (IF value THEN "OK" ELSE "NOT FOUND")
    ELSE (IF value THEN "probably correct" ELSE "not found")

\* The prompt main prints at the top of its loop.
PromptText == "word (or 'quit'): "

VARIABLES
    version,         \* "REL" or "SEQ": which program runs
    bloom_dat,       \* the persisted filter: the set of bit indices that are 1
    pc,              \* where main is: start, prompt, check, reported, exit0, exit1
    open_files,      \* logical file numbers open on the drive
    current_record,  \* int16_t current_record
    record_buffer,   \* uint8_t record_buffer[RECORD_SIZE]
    period_count,    \* uint8_t period_count (REL)
    word,            \* the word check_word was called with
    bit_positions,   \* bit_positions[] of check_word (REL)
    i,               \* loop index of the bit-check loop
    result,          \* bool result of main: what check_word returned
    output,          \* the last line main printed
    last,            \* the most recent bit check: position, record, result, transport operations
    store_failed,    \* a store operation failed during the current check_word call
    ever_failed,     \* a store operation failed since the program started
    probe            \* one call of a function taken on its own: arguments and result

\* The state of the running program.
program_vars ==
    <<version, bloom_dat, pc, open_files, current_record, record_buffer,
      period_count, word, bit_positions, i, result, output, last,
      store_failed, ever_failed>>

vars == <<program_vars, probe>>

\* No function is being called on its own.
NoProbe == [fn |-> "none"]

NoBitCheck ==
    [pos |-> -1, rec |-> -1, ret |-> FALSE, ops |-> <<>>, failed |-> FALSE,
     loaded |-> FALSE, before |-> -1, follows_load |-> FALSE,
     loads |-> <<>>, entry |-> -1]

Init ==
    /\ version \in {"REL", "SEQ"}
    /\ bloom_dat \in Filters
    /\ pc = "start"
    /\ open_files = {}
    /\ current_record = -1
    /\ record_buffer = EmptyBuffer(version)
    /\ period_count = 0
    /\ word = <<>>
    /\ bit_positions = [idx \in HashIndex |-> 0]
    /\ i = 0
    /\ result = FALSE
    /\ output = ""
    /\ last = NoBitCheck
    /\ store_failed = FALSE
    /\ ever_failed = FALSE
    /\ probe = NoProbe

\* A main that goes on to its loop whatever the open returned.
main_after_open_goes_on(ret) == "prompt"

\* main after the initial open: return 1 if it returned false, else enter
\* the loop.
main_after_open(ret) == IF ret THEN "prompt" ELSE "exit1"

\* A check_word that leaves period_count as the call before left it.
period_count_kept(count) == count

\* check_word on entry: period_count = 0
period_count_on_entry(count) == 0

\* spaces_needed = PROMPT_LENGTH - CHECKING_LENGTH - period_count, computed
\* in int and converted to uint8_t, when period_count is count
spaces_needed_for(count) == (PROMPT_LENGTH - CHECKING_LENGTH - count) % 256

\* main after check_word returned: the uint8_t spaces_needed
spaces_needed == spaces_needed_for(period_count)

\* main (REL): bloom_open, and return 1 when it fails
RelOpen ==
    /\ version = "REL" /\ pc = "start"
    /\ \E env \in RelOpenEnv :
         LET r == bloom_open(current_record, env)
         IN  /\ current_record' = r.current_record
             /\ open_files' = r.open_files
             /\ pc' = main_after_open(r.ret)
             /\ output' = IF r.ret THEN PromptText ELSE "failed to open bloom.dat"
             /\ ever_failed' = (env.open_cmd # 0 \/ env.cmd_status # 0
                                \/ env.open_data # 0 \/ env.data_status # 0)
    /\ UNCHANGED <<probe, version, bloom_dat, record_buffer, period_count, word,
                   bit_positions, i, result, last, store_failed>>

\* main (SEQ): open_bloom_file, and return 1 when it fails
SeqOpen ==
    /\ version = "SEQ" /\ pc = "start"
    /\ \E env \in SeqOpenEnv :
         LET o == open_bloom_file([current_record |-> current_record,
                                   record_buffer |-> record_buffer,
                                   open_files |-> open_files, pos |-> 0,
                                   ops |-> <<>>, failed |-> FALSE], env)
         IN  /\ current_record' = o.m.current_record
             /\ open_files' = o.m.open_files
             /\ pc' = main_after_open(o.ret)
             /\ output' = IF o.ret THEN PromptText ELSE "failed to open bloom.dat"
             /\ ever_failed' = o.m.failed
    /\ UNCHANGED <<probe, version, bloom_dat, record_buffer, period_count, word,
                   bit_positions, i, result, last, store_failed>>

\* main reads a word and calls check_word (REL): reset period_count,
\* compute the bit positions and sort them
RelReadWord ==
    /\ version = "REL" /\ pc = "prompt"
    /\ \E w \in Words :
         /\ word' = w
         /\ bit_positions' = sorted_table[w]
    /\ period_count' = period_count_on_entry(period_count)
    /\ i' = 0
    /\ pc' = "check"
    /\ store_failed' = FALSE
    /\ UNCHANGED <<probe, version, bloom_dat, open_files, current_record, record_buffer,
                   result, output, last, ever_failed>>

\* main reads a word and calls check_word (SEQ)
SeqReadWord ==
    /\ version = "SEQ" /\ pc = "prompt"
    /\ \E w \in Words : word' = w
    /\ i' = 0
    /\ pc' = "check"
    /\ store_failed' = FALSE
    /\ UNCHANGED <<probe, version, bloom_dat, open_files, current_record, record_buffer,
                   period_count, bit_positions, result, output, last, ever_failed>>

\* What a bit check leaves in `last`: its bit position and record, the value
\* it returned, the operations it issued on the transport, whether one of
\* them failed, whether it read a record into record_buffer, current_record
\* before it, whether the bit check before it had loaded the very same
\* record without a failure, the records read so far during this check_word
\* call and current_record when the call began.
BitCheckRecord(pos, r, cur) ==
    [pos |-> pos, rec |-> r.rec, ret |-> r.ret, ops |-> r.ops,
     failed |-> r.failed, loaded |-> r.loaded, before |-> cur,
     follows_load |-> (last.loaded /\ ~last.failed /\ last.rec = r.rec),
     loads |-> IF r.loaded THEN Append(last.loads, r.rec) ELSE last.loads,
     entry |-> IF i = 0 THEN cur ELSE last.entry]

\* check_word (REL): one pass of the loop over the sorted positions, and,
\* when check_word returns, main's report
RelCheckStep ==
    /\ version = "REL" /\ pc = "check"
    /\ \E env \in RelReadEnv(version) :
       \E r \in {bloom_read_bit(bit_positions[i], current_record, record_buffer,
                                bloom_dat, env)} :
         LET c == check_word_loop(r.ret, i)
         IN  /\ current_record' = r.current_record
             /\ record_buffer' = r.record_buffer
             /\ period_count' = (period_count + r.periods) % 256
             /\ last' = BitCheckRecord(bit_positions[i], r, current_record)
             /\ store_failed' = (store_failed \/ r.failed)
             /\ ever_failed' = (ever_failed \/ r.failed)
             /\ i' = c.i
             /\ pc' = IF c.returned THEN "reported" ELSE "check"
             /\ result' = IF c.returned THEN c.value ELSE result
             /\ output' = IF c.returned THEN main_report(version, c.value) ELSE output
    /\ UNCHANGED <<probe, version, bloom_dat, open_files, word, bit_positions>>

\* check_word (SEQ): one pass of the loop over the hash functions, and,
\* when check_word returns, main's report
SeqCheckStep ==
    /\ version = "SEQ" /\ pc = "check"
    /\ \E env \in SeqReadEnv :
       \E r \in {check_bit(bit_position_table[word][i], current_record,
                           record_buffer, open_files, bloom_dat, env)} :
         LET bit_pos == bit_position_table[word][i]
             c == check_word_loop(r.ret, i)
         IN  /\ current_record' = r.current_record
             /\ record_buffer' = r.record_buffer
             /\ open_files' = r.open_files
             /\ last' = BitCheckRecord(bit_pos, r, current_record)
             /\ store_failed' = (store_failed \/ r.failed)
             /\ ever_failed' = (ever_failed \/ r.failed)
             /\ i' = c.i
             /\ pc' = IF c.returned THEN "reported" ELSE "check"
             /\ result' = IF c.returned THEN c.value ELSE result
             /\ output' = IF c.returned THEN main_report(version, c.value) ELSE output
    /\ UNCHANGED <<probe, version, bloom_dat, period_count, word, bit_positions>>

\* main: back to the top of the loop, where the prompt is printed.  The
\* locals of the finished check_word call are gone; of the last bit check
\* only its record and outcome are remembered.
Prompt ==
    /\ pc = "reported"
    /\ pc' = "prompt"
    /\ output' = PromptText
    /\ word' = <<>>
    /\ bit_positions' = [idx \in HashIndex |-> 0]
    /\ i' = 0
    /\ result' = FALSE
    /\ store_failed' = FALSE
    /\ last' = [last EXCEPT !.pos = -1, !.ops = <<>>, !.before = -1,
                            !.follows_load = FALSE, !.loads = <<>>, !.entry = -1]
    /\ UNCHANGED <<probe, version, bloom_dat, open_files, current_record, record_buffer,
                   period_count, ever_failed>>

\* main (REL): end of input or "QUIT": bloom_close and return 0
RelQuit ==
    /\ version = "REL" /\ pc = "prompt"
    /\ LET r == bloom_close(current_record)
       IN  /\ current_record' = r.current_record
           /\ open_files' = r.open_files
    /\ pc' = "exit0"
    /\ output' = "goodbye!"
    /\ UNCHANGED <<probe, version, bloom_dat, record_buffer, period_count, word,
                   bit_positions, i, result, last, store_failed, ever_failed>>

\* main (SEQ): end of input or "QUIT": close_bloom_file and return 0
SeqQuit ==
    /\ version = "SEQ" /\ pc = "prompt"
    /\ LET m == close_bloom_file([current_record |-> current_record,
                                  record_buffer |-> record_buffer,
                                  open_files |-> open_files, pos |-> 0,
                                  ops |-> <<>>, failed |-> FALSE])
       IN  /\ current_record' = m.current_record
           /\ open_files' = m.open_files
    /\ pc' = "exit0"
    /\ output' = "goodbye!"
    /\ UNCHANGED <<probe, version, bloom_dat, record_buffer, period_count, word,
                   bit_positions, i, result, last, store_failed, ever_failed>>

Next ==
    \/ RelOpen
    \/ SeqOpen
    \/ RelReadWord
    \/ SeqReadWord
    \/ RelCheckStep
    \/ SeqCheckStep
    \/ Prompt
    \/ RelQuit
    \/ SeqQuit

Spec == Init /\ [][Next]_vars

(***************************************************************************)
(* check_word as a whole, on an undisturbed transport.                     *)
(***************************************************************************)
\* One bit check of version v when every store operation succeeds.
bit_check_ok(v, pos, cur, buf, f) ==
    IF v = "REL" THEN bloom_read_bit(pos, cur, buf, f, RelReadOk)
    ELSE check_bit(pos, cur, buf, {}, f, SeqReadOk)

\* The bit-check loop of check_word from index idx on, starting with the
\* cache (cur, buf), visiting positions[idx], positions[idx+1], ...
RECURSIVE check_word_from(_, _, _, _, _, _)
check_word_from(v, f, positions, idx, cur, buf) ==
    LET next(r) ==
            LET c == check_word_loop(r.ret, idx)
            IN  IF c.returned THEN c.value
                ELSE check_word_from(v, f, positions, c.i, r.current_record,
                                     r.record_buffer)
    IN  With(bit_check_ok(v, positions[idx], cur, buf, f), next)

\* The order in which check_word of version v visits the positions of w.
VisitOrder(v, w) == IF v = "REL" THEN sorted_table[w] ELSE bit_position_table[w]

\* check_word(w) of version v on a freshly opened store with an empty cache.
FreshResult(v, f, w) == check_word_from(v, f, VisitOrder(v, w), 0, -1, EmptyBuffer(v))

(***************************************************************************)
(* Vocabulary of the properties.                                           *)
(***************************************************************************)
\* All K bits of w are 1 in the persisted filter f.
AllBitsSet(f, w) == \A idx \in HashIndex : bit_position_table[w][idx] \in f

\* The record of version v that holds bit position pos.
RecordOf(v, pos) == (pos \div BITS_PER_BYTE) \div RECORD_SIZE(v)

\* check_word has just returned to main, which has printed its verdict.
Returned == pc = "reported"

\* The most recent step was a bit check.
BitChecked == pc \in {"check", "reported"} /\ last.pos >= 0

\* The most recent bit check tested a bit of record_buffer (after loading the
\* record, or on a cache hit) and found it zero.
ZeroBit == BitChecked /\ ~last.ret /\ (last.loaded \/ last.ops = <<>>)

\* The most recent bit check left through an error path: a store operation
\* failed and no record was read.
ErrorReturn == BitChecked /\ last.failed /\ ~last.loaded

\* The most recent bit check saw a nonzero DOS status after its POSITION command.
PositionRefused ==
    BitChecked /\ \E k \in DOMAIN last.ops :
                     last.ops[k].op = "status" /\ last.ops[k].arg # <<0>>

\* The permutations of the hash indices.
Permutations5 ==
    {p \in [HashIndex -> HashIndex] : \A a, b \in HashIndex : p[a] = p[b] => a = b}

\* What check_word of version v returns for w on a freshly opened store
\* when it visits the positions of w in each possible order: the set of
\* the values returned, computed once for every filter and word.
any_order_results ==
    Table([v \in {"REL", "SEQ"} |-> [f \in Filters |-> [w \in Words |->
        {check_word_from(v, f, [idx \in HashIndex |-> bit_position_table[w][p[idx]]],
                         0, -1, EmptyBuffer(v)) : p \in Permutations5}]]])

\* check_word(w) of either version on a freshly opened store, for every
\* filter and word.
fresh_results ==
    Table([v \in {"REL", "SEQ"} |-> [f \in Filters |-> [w \in Words |->
        FreshResult(v, f, w)]]])

(***************************************************************************)
(* C1.  No false negatives: a word whose K bits are all set in the         *)
(* persisted filter is reported present by every check_word call during    *)
(* which no store operation fails, whatever calls came before.             *)
(***************************************************************************)
C1_NoFalseNegatives ==
    (Returned /\ ~store_failed /\ AllBitsSet(bloom_dat, word)) => result = TRUE

(***************************************************************************)
(* C2.  A check_word call in which a record load failed hands main a value *)
(* other than the one it returns for a zero bit (false), and main does not *)
(* print the "not found" verdict for it.                                   *)
(***************************************************************************)
C2_FailureSurfacedDistinctly ==
    (Returned /\ ErrorReturn) =>
        /\ result # check_word_loop(FALSE, i).value
        /\ output # main_report(version, FALSE)

(***************************************************************************)
(* C3.  Cache validity (REL): whenever current_record = n >= 0,            *)
(* record_buffer holds exactly the bytes of logical record n of the        *)
(* persisted filter; and current_record = -1 before the first load.        *)
(***************************************************************************)
C3_CacheValid ==
    version = "REL" =>
        /\ (pc = "start" => current_record = -1)
        /\ (current_record >= 0 =>
              /\ current_record \in Records("REL")
              /\ record_buffer = RecordBytes(bloom_dat, "REL", current_record))

(***************************************************************************)
(* C4.  Cache coherence: a bit check that immediately follows a bit check  *)
(* which loaded record n without a failure, and whose position lies in the *)
(* same record n, issues no store operation at all.                        *)
(***************************************************************************)
C4_CacheCoherence ==
    (BitChecked /\ last.follows_load) => (last.ops = <<>> /\ ~last.loaded)

C4_Witness ==
    /\ version = "SEQ" /\ BitChecked /\ last.follows_load
    /\ last.ops = <<>> /\ last.before = last.rec /\ last.rec >= 0

(***************************************************************************)
(* C5.  A bit check that leaves through an error path (a store operation   *)
(* failed, no record was loaded) leaves current_record = -1.               *)
(***************************************************************************)
C5_FailedLoadInvalidates == ErrorReturn => current_record = -1

(***************************************************************************)
(* C6.  check_word is deterministic with respect to cache history: a call  *)
(* during which no store operation fails returns what the same call        *)
(* returns on a freshly started engine, whatever queries ran before.       *)
(***************************************************************************)
C6_DeterministicAcrossHistory ==
    (Returned /\ ~store_failed) => result = fresh_results[version][bloom_dat][word]

(***************************************************************************)
(* C7.  Sorting never changes the answer: when no store operation has      *)
(* failed, check_word returns the conjunction of the K addressed bits, in  *)
(* the sorted order of the REL version, in the hash order of the SEQ       *)
(* version and in any other order of the positions.                        *)
(***************************************************************************)
C7_OrderIndependent ==
    (Returned /\ ~ever_failed) =>
        /\ result = AllBitsSet(bloom_dat, word)
        /\ fresh_results["REL"][bloom_dat][word] = result
        /\ fresh_results["SEQ"][bloom_dat][word] = result
        /\ any_order_results[version][bloom_dat][word] = {result}

C7_Witness ==
    /\ Returned /\ ~ever_failed /\ version = "REL" /\ result = TRUE
    /\ bit_positions # bit_position_table[word]
    /\ bit_positions = sorted_table[word]

(***************************************************************************)
(* C8.  Early exit: once a bit check has found a zero bit, check_word has  *)
(* returned false without a further bit check or store operation, and      *)
(* current_record is the record of the position found zero (unchanged, and *)
(* without any store operation, if that record was already cached).        *)
(***************************************************************************)
C8_EarlyExit ==
    ZeroBit =>
        /\ Returned /\ result = FALSE
        /\ last.pos = VisitOrder(version, word)[i]
        /\ current_record = last.rec
        /\ last.rec = RecordOf(version, last.pos)
        /\ (last.before = last.rec => (last.ops = <<>> /\ ~last.loaded))

C8_Witness ==
    /\ ZeroBit /\ Returned /\ ~store_failed
    /\ i > 0 /\ i < NUM_HASH_FUNCTIONS - 1
    /\ last.loaded /\ last.ops # <<>>

(***************************************************************************)
(* C9.  A nonzero DOS status that is not allow-listed is a failure of the  *)
(* operation: after a refused POSITION command the record is not marked as *)
(* cached and no bit of record_buffer is returned; and bloom_open returns  *)
(* false when opening the command channel or the data file gave a nonzero  *)
(* status.                                                                 *)
(***************************************************************************)
C9_StatusIsFailure ==
    version = "REL" =>
        /\ PositionRefused => (~last.loaded /\ ~last.ret /\ current_record # last.rec)
        /\ pc = "start" =>
              \A env \in RelOpenEnv :
                 (env.open_cmd # 0 \/ env.open_data # 0 \/ env.data_status # 0)
                     => ~bloom_open(current_record, env).ret

(***************************************************************************)
(* C10.  The cache is invalidated whenever the store is closed or          *)
(* reopened: current_record = -1 after bloom_close / close_bloom_file and  *)
(* after every successful bloom_open / open_bloom_file.                    *)
(***************************************************************************)
C10_CloseInvalidates ==
    /\ pc = "exit0" => current_record = -1
    /\ (pc = "prompt" /\ last = NoBitCheck) => current_record = -1

(***************************************************************************)
(* C11.  The cached record is never partially updated: a bit check, whether *)
(* it succeeds or fails, leaves record_buffer either as it was or holding   *)
(* the complete requested record of the persisted filter.                   *)
(***************************************************************************)
C11_NoPartialUpdate ==
    [][(pc = "check" /\ record_buffer' # record_buffer)
          => record_buffer' = RecordBytes(bloom_dat, version, last'.rec)]_vars

(***************************************************************************)
(* C12.  Bit addressing is exact: a successful bit check of position b      *)
(* returns true iff bit b % 8 (LSB first) of flat byte b / 8 of the         *)
(* persisted filter is 1, for every b in 0 .. BLOOM_SIZE_BITS-1; the        *)
(* coordinates it derives satisfy (rec * R + byte) * 8 + bit = b with       *)
(* byte < R and bit < 8, so record_buffer is indexed within its bounds.     *)
(* R is 254 for bloom_read_bit and 256 for check_bit.                       *)
(***************************************************************************)
\* Bit b of the persisted filter: bit b % 8, LSB first, of flat byte b / 8.
FilterBit(f, b) ==
    ((FlatByte(f, b \div BITS_PER_BYTE) \div Pow2(b % BITS_PER_BYTE)) % 2) = 1

\* The bit check r of position b addressed exactly bit b, whose value in
\* the persisted filter is filter_bit.
ExactlyAddressed(v, b, r, filter_bit) ==
    /\ r.ret = filter_bit
    /\ (r.rec * RECORD_SIZE(v) + r.byte) * BITS_PER_BYTE + r.bit = b
    /\ r.byte >= 0 /\ r.byte < RECORD_SIZE(v)
    /\ r.bit >= 0 /\ r.bit < BITS_PER_BYTE
    /\ r.byte \in DOMAIN r.record_buffer

\* For every bit position of filter f: the bit check of version v on an
\* empty cache (a load) and the bit check that follows it (a hit) address
\* exactly.
AddressingExact(v, f) ==
    \A b \in 0..(BLOOM_SIZE_BITS - 1) :
        LET both(filter_bit) ==
                LET hit(r) ==
                        /\ r.loaded /\ ~r.failed
                        /\ ExactlyAddressed(v, b, r, filter_bit)
                        /\ With(bit_check_ok(v, b, r.current_record, r.record_buffer, f),
                                LAMBDA h : /\ ~h.loaded
                                           /\ ExactlyAddressed(v, b, h, filter_bit))
                IN  With(bit_check_ok(v, b, -1, EmptyBuffer(v), f), hit)
        IN  With(FilterBit(f, b), both)

C12_BitAddressingExact ==
    /\ pc = "start" => AddressingExact(version, bloom_dat)
    /\ (BitChecked /\ ~ever_failed) =>
          /\ last.ret = FilterBit(bloom_dat, last.pos)
          /\ last.rec = RecordOf(version, last.pos)

C12_Witness ==
    /\ BitChecked /\ ~ever_failed /\ last.loaded /\ last.ret
    /\ last.rec > 0 /\ last.pos % BITS_PER_BYTE # 0
    /\ (last.pos \div BITS_PER_BYTE) % RECORD_SIZE(version) # 0

(***************************************************************************)
(* C13.  The position command addresses the 1-based record: for every bit   *)
(* position b in 0 .. BLOOM_SIZE_BITS-1, with rec the 0-based record of b,  *)
(* bloom_read_bit writes to the command channel the five bytes 'P',         *)
(* bloom_secondary, low byte of rec+1, high byte of rec+1, 1, where         *)
(* low + 256 * high = rec + 1 exactly; the 254 bytes then read from the     *)
(* data channel are stored as record rec.                                   *)
(***************************************************************************)
\* Every command written to the command channel in ops is the position
\* command for the 0-based record rec, and it follows chkout(15).
PositionAddresses(ops, rec) ==
    \A k \in DOMAIN ops :
        ops[k].op = "bsout" =>
            /\ ops[k].arg \in Seq(0..255) /\ Len(ops[k].arg) = 5
            /\ ops[k].arg[1] = 80
            /\ ops[k].arg[2] = bloom_secondary
            /\ ops[k].arg[3] + 256 * ops[k].arg[4] = rec + 1
            /\ ops[k].arg[5] = 1
            /\ k > 1 /\ ops[k - 1] = Op("chkout", <<CBM_CMD_CHANNEL>>)

\* The load r stored RECORD_SIZE bytes read from the data channel as record rec.
StoredAsRecord(r, rec) ==
    /\ r.current_record = rec
    /\ r.ops[Len(r.ops)] = Op("basin", <<RECORD_SIZE_REL>>)
    /\ r.ops[Len(r.ops) - 1] = Op("chkin", <<bloom_lfn>>)

\* For every bit position of filter f: the bit check on an empty cache
\* positions the drive at the record of b and stores that record.
PositionExact(f) ==
    \A b \in 0..(BLOOM_SIZE_BITS - 1) :
        With(bloom_read_bit(b, -1, EmptyBuffer("REL"), f, RelReadOk),
             LAMBDA r : /\ r.loaded
                        /\ r.rec = RecordOf("REL", b)
                        /\ \E k \in DOMAIN r.ops : r.ops[k].op = "bsout"
                        /\ PositionAddresses(r.ops, RecordOf("REL", b))
                        /\ StoredAsRecord(r, RecordOf("REL", b))
                        /\ r.record_buffer = record_table[f]["REL"][RecordOf("REL", b)])

MaxHashLen == 5

\* Bytes of the words that are hashed: 'A' and a byte above 127.
HashAlphabet == {65, 255}

HashWords == UNION {[1..n -> HashAlphabet] : n \in 1..MaxHashLen}

\* hash_functions[idx](word, seed), for any seed
HashCalls ==
    {[fn |-> "hash", idx |-> idx, word |-> w, seed |-> sd, done |-> FALSE,
      hash |-> U32Of(0)] : idx \in HashIndex, w \in HashWords, sd \in HashIndex}

\* check_word: pass i of the loop that computes the bit positions
PositionCalls ==
    {[fn |-> "bit_position", i |-> idx, word |-> w, done |-> FALSE,
      hash |-> U32Of(0), bit_position |-> 0] : idx \in HashIndex, w \in HashWords}

CallHash ==
    /\ probe.fn = "hash" /\ ~probe.done
    /\ probe' = [probe EXCEPT !.done = TRUE,
                              !.hash = hash_functions(probe.idx, probe.word, probe.seed)]
    /\ UNCHANGED program_vars

\* hash = hash_functions[i](word, i); bit_positions[i] = hash % BLOOM_SIZE_BITS
CallBitPosition ==
    /\ probe.fn = "bit_position" /\ ~probe.done
    /\ probe' = [probe EXCEPT !.done = TRUE,
                              !.hash = hash_functions(probe.i, probe.word, probe.i),
                              !.bit_position = BitPosition(probe.word, probe.i)]
    /\ UNCHANGED program_vars

\* Longest ok_codes list a call site passes.
MaxOkCodes == 2

\* Decoded status codes: OK, RECORD NOT PRESENT and the communication
\* error of read_dos_status.
StatusCodes == {0, 50, 255}

\* The (ok_codes, num_ok_codes) pairs a call site can pass; NULL is <<>>.
OkLists ==
    {[ok_codes |-> l, num_ok_codes |-> n] :
        l \in UNION {[1..len -> StatusCodes \ {0}] : len \in 0..MaxOkCodes},
        n \in 0..MaxOkCodes}

\* check_dos_status(device, operation, ok_codes, num_ok_codes) when
\* read_dos_status has decoded err; before, the codes the previous call
\* accepted and what it returned.
StatusCall(err, a, before) ==
    [fn |-> "check_dos_status", err |-> err, ok_codes |-> a.ok_codes,
     num_ok_codes |-> a.num_ok_codes, done |-> FALSE, ret |-> FALSE,
     before |-> before]

StatusCalls ==
    {StatusCall(err, a, [ok |-> {}, ret |-> FALSE]) :
        err \in StatusCodes, a \in {x \in OkLists : x.num_ok_codes <= Len(x.ok_codes)}}

CallCheckDosStatus ==
    /\ probe.fn = "check_dos_status" /\ ~probe.done
    /\ probe' = [probe EXCEPT !.done = TRUE,
                              !.ret = check_dos_status(probe.err, probe.ok_codes,
                                                       probe.num_ok_codes)]
    /\ UNCHANGED program_vars

\* The next call site calls check_dos_status with its own list.
CallCheckDosStatusAgain ==
    /\ probe.fn = "check_dos_status" /\ probe.done
    /\ \E err \in StatusCodes, a \in OkLists :
         /\ a.num_ok_codes <= Len(a.ok_codes)
         /\ probe' = StatusCall(err, a,
                                [ok |-> {probe.ok_codes[k] : k \in 1..probe.num_ok_codes},
                                 ret |-> probe.ret])
    /\ UNCHANGED program_vars

\* End of file status bit of cbm_k_readst.
CBM_STATUS_EOF == 64

\* Longest byte stream the command channel delivers.
MaxStreamLen == 6
\* Largest msg_bufsize.
MaxMsgBuf == 3

\* Bytes on the command channel: the digit '5', the letter 'A', carriage return.
StreamAlphabet == {53, 65, 13}

Streams == UNION {[1..n -> StreamAlphabet] : n \in 0..MaxStreamLen}

\* What the k-th cbm_k_basin on the command channel returns and what
\* cbm_k_readst says after it: the last byte of the stream comes with the
\* end-of-file bit; past the end the KERNAL delivers carriage returns with
\* the end-of-file and timeout bits.
ChannelRead(stream, k) ==
    IF k <= Len(stream)
    THEN [c |-> stream[k], status |-> IF k = Len(stream) THEN CBM_STATUS_EOF ELSE 0]
    ELSE [c |-> 13, status |-> CBM_STATUS_EOF + 2]

\* c == '\r' || (status & CBM_STATUS_EOF)
EndOfMessage(r) == r.c = 13 \/ ((r.status \div CBM_STATUS_EOF) % 2) = 1

\* "CHKIN 15 FAIL"
ChkinFailText == <<67, 72, 73, 75, 78, 32, 49, 53, 32, 70, 65, 73, 76>>

\* strncpy(msg_buf, text, n): n bytes written, NUL padding after the text
strncpy(msg_buf, text, n) ==
    [j \in DOMAIN msg_buf |->
        IF j < n THEN (IF j < Len(text) THEN text[j + 1] ELSE 0) ELSE msg_buf[j]]

\* A message loop that fills msg_buf up to its last byte.
RECURSIVE read_dos_status_message_no_room(_, _, _, _)
read_dos_status_message_no_room(stream, msg_bufsize, idx, m) ==
    IF idx < msg_bufsize
    THEN LET r == ChannelRead(stream, m.reads + 1)
         IN  IF EndOfMessage(r)
             THEN [msg_buf |-> [m.msg_buf EXCEPT ![idx] = 0],
                   written |-> m.written \cup {idx}, reads |-> m.reads + 1]
             ELSE read_dos_status_message_no_room(stream, msg_bufsize, idx + 1,
                      [msg_buf |-> [m.msg_buf EXCEPT ![idx] = r.c],
                       written |-> m.written \cup {idx}, reads |-> m.reads + 1])
    ELSE [msg_buf |-> [m.msg_buf EXCEPT ![idx] = 0],
          written |-> m.written \cup {idx}, reads |-> m.reads]

\* The message loop of read_dos_status from index idx on, and the
\* terminating NUL.  m is msg_buf, the indices written so far and the
\* number of bytes read from the channel so far.
RECURSIVE read_dos_status_message(_, _, _, _)
read_dos_status_message(stream, msg_bufsize, idx, m) ==
    IF idx < msg_bufsize - 1
    THEN LET r == ChannelRead(stream, m.reads + 1)
         IN  IF EndOfMessage(r)
             THEN [msg_buf |-> [m.msg_buf EXCEPT ![idx] = 0],
                   written |-> m.written \cup {idx}, reads |-> m.reads + 1]
             ELSE read_dos_status_message(stream, msg_bufsize, idx + 1,
                      [msg_buf |-> [m.msg_buf EXCEPT ![idx] = r.c],
                       written |-> m.written \cup {idx}, reads |-> m.reads + 1])
    ELSE [msg_buf |-> [m.msg_buf EXCEPT ![idx] = 0],
          written |-> m.written \cup {idx}, reads |-> m.reads]

\* read_dos_status(device, msg_buf, msg_bufsize) with a msg_buf given:
\* chkin is what cbm_k_chkin(15) returns, stream what the channel delivers.
read_dos_status(chkin, stream, msg_buf, msg_bufsize) ==
    IF chkin # 0
    THEN [ret |-> 255,
          msg_buf |-> IF msg_bufsize > 0
                      THEN [strncpy(msg_buf, ChkinFailText, msg_bufsize - 1)
                               EXCEPT ![msg_bufsize - 1] = 0]
                      ELSE msg_buf,
          written |-> IF msg_bufsize > 0 THEN 0..(msg_bufsize - 1) ELSE {},
          reads |-> 0]
    ELSE LET digit(c) == c >= 48 /\ c <= 57
             c1 == ChannelRead(stream, 1).c
             c2 == ChannelRead(stream, 2).c
             tens == IF digit(c1) THEN ((c1 - 48) * 10) % 256 ELSE 0
             err_code == IF digit(c2) THEN (tens + (c2 - 48)) % 256 ELSE tens
         IN  IF msg_bufsize > 0
             THEN With(read_dos_status_message(stream, msg_bufsize, 0,
                           [msg_buf |-> msg_buf, written |-> {}, reads |-> 3]),
                       LAMBDA m : [ret |-> err_code, msg_buf |-> m.msg_buf,
                                   written |-> m.written, reads |-> m.reads])
             ELSE [ret |-> err_code, msg_buf |-> msg_buf, written |-> {}, reads |-> 2]

\* char msg[msg_bufsize], not initialised: some nonzero bytes.
UninitialisedBuffer(msg_bufsize) == [j \in 0..(msg_bufsize - 1) |-> 170]

DecodeCalls ==
    {[fn |-> "read_dos_status", chkin |-> st, stream |-> str, msg_bufsize |-> n,
      done |-> FALSE, ret |-> 0, msg_buf |-> UninitialisedBuffer(n),
      written |-> {}, reads |-> 0] :
        st \in KernalStatus, str \in Streams, n \in 0..MaxMsgBuf}

CallReadDosStatus ==
    /\ probe.fn = "read_dos_status" /\ ~probe.done
    /\ LET r == read_dos_status(probe.chkin, probe.stream, probe.msg_buf,
                                probe.msg_bufsize)
       IN  probe' = [probe EXCEPT !.done = TRUE, !.ret = r.ret, !.msg_buf = r.msg_buf,
                                  !.written = r.written, !.reads = r.reads]
    /\ UNCHANGED program_vars

\* Number of different bit positions handed to the sort.
MaxSortValues == 3

\* Bit positions spread evenly over the filter, first and last bit included.
SortPositions ==
    {(k * (BLOOM_SIZE_BITS - 1)) \div (MaxSortValues - 1) : k \in 0..(MaxSortValues - 1)}

\* check_word: the bubble sort, given the positions computed before it
SortCalls ==
    {[fn |-> "sort", computed |-> a, done |-> FALSE, bit_positions |-> a] :
        a \in [HashIndex -> SortPositions]}

CallSort ==
    /\ probe.fn = "sort" /\ ~probe.done
    /\ probe' = [probe EXCEPT !.done = TRUE,
                              !.bit_positions = sort_outer(probe.computed, 0)]
    /\ UNCHANGED program_vars

\* Last record of a file the store can address: its 1-based number
\* dos_rec = rec + 1 is the largest value of the two record-number bytes.
\* The next value, 65535, is what -1 converts to in the comparison with a
\* uint16_t; no file has a record of that number.
LastRecord == W16 - 2

\* Record numbers at the ends of the range and on either side of INT16_MAX.
CacheRecords == {0, 1, (W16 \div 2) - 1, W16 \div 2, LastRecord}

\* The first and the last bit of record rec.
BitsOfRecord(v, rec) ==
    {rec * RECORD_SIZE(v) * BITS_PER_BYTE,
     (rec + 1) * RECORD_SIZE(v) * BITS_PER_BYTE - 1}

\* One bit check of version v, whatever the transport answers.
BitCheckOutcomes(v, bit_pos, cur, buf, f) ==
    IF v = "REL"
    THEN {bloom_read_bit(bit_pos, cur, buf, f, env) : env \in RelReadEnv(v)}
    ELSE {check_bit(bit_pos, cur, buf, {bloom_lfn}, f, env) : env \in SeqReadEnv}

\* What a later bit check of bit_pos does when the transport answers well.
BitCheckAgain(v, bit_pos, cur, buf, f) ==
    IF v = "REL"
    THEN bloom_read_bit(bit_pos, cur, buf, f, RelReadOk)
    ELSE check_bit(bit_pos, cur, buf, {bloom_lfn}, f, SeqReadOk)

\* The part of a bit check's result the cache test decides.
CacheOutcome(r) ==
    [ret |-> r.ret, rec |-> r.rec, loaded |-> r.loaded, failed |-> r.failed,
     ops |-> r.ops, current_record |-> r.current_record,
     tested |-> TestBit(r.record_buffer, r.byte, r.bit)]

NoCacheOutcome ==
    [ret |-> FALSE, rec |-> 0, loaded |-> FALSE, failed |-> FALSE, ops |-> <<>>,
     current_record |-> -1, tested |-> FALSE]

\* bloom_read_bit / check_bit called with the cache empty (current_record
\* = -1, as bloom_open and open_bloom_file leave it), then called again for
\* the first bit of each record of CacheRecords with the cache the first
\* call left.
CacheCall(v, n, b) ==
    [fn |-> "cache", version |-> v, rec |-> n, bit_position |-> b, done |-> FALSE,
     first |-> NoCacheOutcome, hits |-> {}]

CacheCalls ==
    UNION {{CacheCall(v, n, b) : b \in BitsOfRecord(v, n)} :
              v \in {"REL", "SEQ"}, n \in CacheRecords}

CallCacheTest ==
    /\ probe.fn = "cache" /\ ~probe.done
    /\ \E r \in BitCheckOutcomes(probe.version, probe.bit_position, -1,
                                  EmptyBuffer(probe.version), bloom_dat) :
          probe' = [probe EXCEPT
                      !.done = TRUE,
                      !.first = CacheOutcome(r),
                      !.hits = {n \in CacheRecords :
                                  \A b \in BitsOfRecord(probe.version, n) :
                                      ~BitCheckAgain(probe.version, b, r.current_record,
                                                     r.record_buffer, bloom_dat).loaded}]
    /\ UNCHANGED program_vars

\* The calls CallSpec starts from.
CallInputs ==
    HashCalls \cup PositionCalls \cup StatusCalls \cup DecodeCalls \cup SortCalls
        \cup CacheCalls

CallInit ==
    /\ version = "REL"
    /\ bloom_dat = BuildFilter({})
    /\ pc = "start"
    /\ open_files = {}
    /\ current_record = -1
    /\ record_buffer = EmptyBuffer(version)
    /\ period_count = 0
    /\ word = <<>>
    /\ bit_positions = [idx \in HashIndex |-> 0]
    /\ i = 0
    /\ result = FALSE
    /\ output = ""
    /\ last = NoBitCheck
    /\ store_failed = FALSE
    /\ ever_failed = FALSE
    /\ probe \in CallInputs

CallNext ==
    \/ CallHash
    \/ CallBitPosition
    \/ CallCheckDosStatus
    \/ CallCheckDosStatusAgain
    \/ CallReadDosStatus
    \/ CallSort
    \/ CallCacheTest

CallSpec == CallInit /\ [][CallNext]_vars

(***************************************************************************)
(* Reference arithmetic modulo 2^32, used to state what the hash functions *)
(* are documented to compute.  A value is its four base-256 digits, least  *)
(* significant first; sums and products are formed digit by digit and the  *)
(* carries propagated, the carry out of the fourth digit being dropped.    *)
(***************************************************************************)
RefCarry(d) ==
    LET d2 == d[2] + (d[1] \div 256)
        d3 == d[3] + (d2 \div 256)
        d4 == d[4] + (d3 \div 256)
    IN  <<d[1] % 256, d2 % 256, d3 % 256, d4 % 256>>

\* A natural number below 2^31.
RefOfNat(n) == RefCarry(<<n, 0, 0, 0>>)

RefOfU32(x) == <<x.lo % 256, x.lo \div 256, x.hi % 256, x.hi \div 256>>

RefAdd(a, b) == RefCarry([k \in 1..4 |-> a[k] + b[k]])

\* a - b = a + (2^32 - 1 - b) + 1
RefSub(a, b) ==
    RefCarry([k \in 1..4 |-> a[k] + (255 - b[k]) + (IF k = 1 THEN 1 ELSE 0)])

RefDigit(a, k) == IF k \in 1..4 THEN a[k] ELSE 0

RefMul(a, b) ==
    RefCarry([k \in 1..4 |->
                 RefDigit(a, 1) * RefDigit(b, k) + RefDigit(a, 2) * RefDigit(b, k - 1)
                   + RefDigit(a, 3) * RefDigit(b, k - 2)
                   + RefDigit(a, 4) * RefDigit(b, k - 3)])

\* a * 2^n
RefShl(a, n) ==
    RefMul(a, [k \in 1..4 |-> IF k = (n \div 8) + 1 THEN Pow2(n % 8) ELSE 0])

\* floor(a / 2^n)
RefShr(a, n) ==
    LET q == n \div 8
        r == n % 8
    IN  [k \in 1..4 |->
            ((RefDigit(a, k + q) \div Pow2(r))
               + (RefDigit(a, k + q + 1) % Pow2(r)) * Pow2(8 - r)) % 256]

\* bitwise exclusive or
RefXor(a, b) ==
    LET bit(x, y, j) == (((x \div Pow2(j)) + (y \div Pow2(j))) % 2) * Pow2(j)
        byte(x, y) == bit(x, y, 0) + bit(x, y, 1) + bit(x, y, 2) + bit(x, y, 3)
                        + bit(x, y, 4) + bit(x, y, 5) + bit(x, y, 6) + bit(x, y, 7)
    IN  [k \in 1..4 |-> byte(a[k], b[k])]

\* a mod m, for m < 2^15
RefMod(a, m) == ((((((a[4] % m) * 256 + a[3]) % m) * 256 + a[2]) % m) * 256 + a[1]) % m

\* acc after the bytes of w, where Step(acc, byte) is the recurrence
RECURSIVE RefFold(_, _, _)
RefFold(Step(_, _), acc, w) ==
    IF w = <<>> THEN acc ELSE RefFold(Step, Step(acc, RefOfNat(Head(w))), Tail(w))

(***************************************************************************)
(* C14.  Hashing and bit addressing use unsigned 32-bit wraparound          *)
(* arithmetic: for every word and every seed 0..4, each of the five hash    *)
(* functions equals its documented recurrence evaluated modulo 2^32 (for    *)
(* DJB2, (acc << 5) + acc + byte equals acc * 33 + byte); check_word calls  *)
(* hash function i with seed i, and every bit position it computes lies in *)
(* 0 .. BLOOM_SIZE_BITS-1.                                                  *)
(***************************************************************************)
\* The documented recurrences, modulo 2^32.
RefHash(idx, w, seed) ==
    CASE idx = 0 ->
           RefFold(LAMBDA acc, c : RefMul(RefXor(acc, c), RefOfNat(16777619)),
                   RefAdd(RefAdd(RefOfNat(2000000000), RefOfNat(166136261)),
                          RefOfNat(seed)), w)
      [] idx = 1 ->
           RefFold(LAMBDA acc, c : RefAdd(RefMul(acc, RefOfNat(33)), c),
                   RefOfNat(5381 + seed), w)
      [] idx = 2 ->
           RefFold(LAMBDA acc, c : RefSub(RefAdd(RefAdd(c, RefShl(acc, 6)),
                                                 RefShl(acc, 16)), acc),
                   RefOfNat(seed), w)
      [] idx = 3 ->
           LET mix(acc, c) ==
                   LET a1 == RefAdd(acc, c)
                       a2 == RefAdd(a1, RefShl(a1, 10))
                   IN  RefXor(a2, RefShr(a2, 6))
               h0 == RefFold(mix, RefOfNat(seed), w)
               h1 == RefAdd(h0, RefShl(h0, 3))
               h2 == RefXor(h1, RefShr(h1, 11))
           IN  RefAdd(h2, RefShl(h2, 15))
      [] idx = 4 ->
           LET mix(acc, c) ==
                   LET a1 == RefMul(RefXor(acc, c), RefOfNat(1540483477))
                   IN  RefXor(a1, RefShr(a1, 15))
           IN  RefFold(mix,
                       RefAdd(RefOfNat(seed),
                              RefAdd(RefOfNat(2000000000), RefOfNat(538058380))), w)

IsUint32(x) == x.hi \in 0..(W16 - 1) /\ x.lo \in 0..(W16 - 1)

C14_HashArithmetic ==
    /\ (probe.fn = "hash" /\ probe.done) =>
          /\ IsUint32(probe.hash)
          /\ RefOfU32(probe.hash) = RefHash(probe.idx, probe.word, probe.seed)
    /\ (probe.fn = "bit_position" /\ probe.done) =>
          /\ RefOfU32(probe.hash) = RefHash(probe.i, probe.word, probe.i)
          /\ probe.bit_position = RefMod(RefHash(probe.i, probe.word, probe.i),
                                         BLOOM_SIZE_BITS)
          /\ probe.bit_position \in 0..(BLOOM_SIZE_BITS - 1)

\* DJB2 on a word long enough for acc * 33 + byte to pass 2^32.
C14_Witness ==
    /\ probe.fn = "hash" /\ probe.done /\ probe.idx = 1 /\ probe.seed = 4
    /\ Len(probe.word) = MaxHashLen /\ Len(probe.word) >= 4
    /\ probe.word[1] = 255

(***************************************************************************)
(* C15.  Status acceptance: check_dos_status returns true iff the decoded   *)
(* code is 0 or equals one of the first num_ok_codes entries of the         *)
(* ok_codes list of that very call; what an earlier call accepted plays no  *)
(* part, so with an empty list (NULL, 0) every nonzero code, 255 included,  *)
(* yields false.                                                            *)
(***************************************************************************)
C15_StatusAcceptance ==
    (probe.fn = "check_dos_status" /\ probe.done) =>
        /\ probe.ret = (\/ probe.err = 0
                        \/ probe.err \in {probe.ok_codes[k] : k \in 1..probe.num_ok_codes})
        /\ (probe.num_ok_codes = 0 /\ probe.err # 0) => ~probe.ret

\* Code 255 refused by a call with an empty list right after a call that
\* accepted it from its own list.
C15_Witness ==
    /\ probe.fn = "check_dos_status" /\ probe.done
    /\ probe.err = 255 /\ probe.num_ok_codes = 0 /\ ~probe.ret
    /\ 255 \in probe.before.ok /\ probe.before.ret

(***************************************************************************)
(* C16.  Status decoding is bounded: whatever the command channel delivers, *)
(* read_dos_status reads at most 3 + (msg_bufsize - 1) bytes, reads no      *)
(* byte of the message after the first carriage return or end-of-file       *)
(* status, writes only indices 0 .. msg_bufsize-1 of msg_buf and leaves     *)
(* msg_buf NUL-terminated (a msg_buf of size 0 is left untouched).          *)
(***************************************************************************)
C16_DecodingBounded ==
    (probe.fn = "read_dos_status" /\ probe.done) =>
        /\ probe.reads <= 3 + (probe.msg_bufsize - 1)
        /\ \A k \in 4..(probe.reads - 1) : ~EndOfMessage(ChannelRead(probe.stream, k))
        /\ probe.written \subseteq 0..(probe.msg_bufsize - 1)
        /\ \A j \in DOMAIN probe.msg_buf :
              j \notin probe.written => probe.msg_buf[j] = UninitialisedBuffer(probe.msg_bufsize)[j]
        /\ probe.msg_bufsize > 0 =>
              \E j \in probe.written : probe.msg_buf[j] = 0

\* A stream with no terminator within reach: the loop stops because msg_buf
\* is full, after exactly 3 + (msg_bufsize - 1) reads.
C16_Witness ==
    /\ probe.fn = "read_dos_status" /\ probe.done /\ probe.chkin = 0
    /\ probe.msg_bufsize = MaxMsgBuf /\ probe.msg_bufsize >= 2
    /\ probe.reads = 3 + (probe.msg_bufsize - 1)
    /\ Len(probe.stream) >= probe.reads
    /\ \A k \in 4..probe.reads : probe.stream[k] # 13
    /\ probe.msg_buf[probe.msg_bufsize - 1] = 0
    /\ probe.ret = 55

(***************************************************************************)
(* C17.  Open failure at startup is fatal to the session: if the initial    *)
(* bloom_open (REL) or open_bloom_file (SEQ) returns false, main returns 1  *)
(* and no check_word call and no record read ever happens; a store failure  *)
(* during a later query does not end the session: main goes back to its     *)
(* prompt and accepts the next word.                                        *)
(***************************************************************************)
\* What main does once the initial open has returned ret.
AfterInitialOpen(ret) ==
    /\ ret => pc' = "prompt"
    /\ ~ret => /\ pc' = "exit1"
               /\ last' = NoBitCheck /\ word' = <<>>
               /\ record_buffer' = EmptyBuffer(version)

\* The step main takes from its start: there is an answer of the transport
\* with which the open leaves the files as they now are, and main acted on
\* the value the open returned.
InitialOpenStep ==
    IF version = "REL"
    THEN \E env \in RelOpenEnv :
           LET r == bloom_open(current_record, env)
           IN  /\ open_files' = r.open_files
               /\ current_record' = r.current_record
               /\ AfterInitialOpen(r.ret)
    ELSE \E env \in SeqOpenEnv :
           LET o == open_bloom_file([current_record |-> current_record,
                                     record_buffer |-> record_buffer,
                                     open_files |-> open_files, pos |-> 0,
                                     ops |-> <<>>, failed |-> FALSE], env)
           IN  /\ open_files' = o.m.open_files
               /\ current_record' = o.m.current_record
               /\ AfterInitialOpen(o.ret)

C17_OpenFailureFatal ==
    /\ [][/\ pc = "start" => InitialOpenStep
          /\ pc # "exit1"]_vars
    /\ [](/\ pc = "exit1" => (last = NoBitCheck /\ word = <<>>)
          /\ (Returned /\ store_failed) => ENABLED Prompt
          /\ (pc = "prompt" /\ ever_failed) => ENABLED (RelReadWord \/ SeqReadWord))

\* A new query under way after a query in which a store operation failed.
C17_Witness ==
    /\ pc = "check" /\ ever_failed /\ ~store_failed
    /\ last.failed /\ ~last.loaded /\ last.rec >= 0

(***************************************************************************)
(* C18.  Descending visit order: after the bubble sort of check_word (REL), *)
(* bit_positions is a permutation of the 5 computed positions (each value   *)
(* as often as before, duplicates kept) with                                *)
(* bit_positions[i] >= bit_positions[i+1] for i = 0..3; so the record       *)
(* numbers requested within one query never increase.                       *)
(***************************************************************************)
\* How often value x occurs in array a.
Occurrences(a, x) == Cardinality({k \in DOMAIN a : a[k] = x})

RECURSIVE loads_from(_, _, _, _, _, _, _)
loads_from(v, f, positions, idx, cur, buf, loads) ==
    LET next(r) ==
            LET c == check_word_loop(r.ret, idx)
                l == IF r.loaded THEN Append(loads, r.rec) ELSE loads
            IN  IF c.returned THEN l
                ELSE loads_from(v, f, positions, c.i, r.current_record,
                                r.record_buffer, l)
    IN  With(bit_check_ok(v, positions[idx], cur, buf, f), next)

\* Some record occurs twice in the sequence l.
LoadedTwice(l) == \E a, b \in DOMAIN l : a # b /\ l[a] = l[b]

\* The positions the current check_word call has examined so far.
Examined == 0..((IF last.ret THEN i ELSE i + 1) - 1)

\* The distinct record numbers among the positions examined.
ExaminedRecords == {RecordOf(version, VisitOrder(version, word)[k]) : k \in Examined}

C19_SortedMinimisesLoads ==
    /\ (version = "REL" /\ BitChecked /\ ~store_failed) =>
          /\ ~LoadedTwice(last.loads)
          /\ Len(last.loads) <= Cardinality(ExaminedRecords)
          /\ Len(last.loads) =
                IF last.entry = RecordOf("REL", bit_positions[0])
                THEN Cardinality(ExaminedRecords) - 1
                ELSE Cardinality(ExaminedRecords)
    /\ (version = "SEQ" /\ pc = "start") =>
          \E f \in Filters, w \in Words :
              LoadedTwice(loads_from("SEQ", f, VisitOrder("SEQ", w), 0, -1,
                                     EmptyBuffer("SEQ"), <<>>))

\* A REL query that examined all its positions, in three records, the
\* first of them cached by the query before: two loads.
C19_Witness ==
    /\ version = "REL" /\ Returned /\ result /\ ~ever_failed
    /\ last.entry = RecordOf("REL", bit_positions[0])
    /\ Cardinality(ExaminedRecords) = 3
    /\ Len(last.loads) = 2

(***************************************************************************)
(* C20.  A store failure aborts the query without retry: once a store       *)
(* operation of a record load has failed inside check_word, the call        *)
(* issues no further store operation, neither a second attempt nor a load   *)
(* for the remaining positions (closing the file aside), and returns        *)
(* false.                                                                   *)
(***************************************************************************)
\* The index in ops of the operation that failed: the status read that came
\* back nonzero if there is one, else the operation before the closing of
\* the file, else the last operation.
FailedOp(ops) ==
    IF \E k \in DOMAIN ops : ops[k].op = "status" /\ ops[k].arg # <<0>>
    THEN CHOOSE k \in DOMAIN ops : ops[k].op = "status" /\ ops[k].arg # <<0>>
    ELSE IF ops[Len(ops)].op = "close" THEN Len(ops) - 1
    ELSE Len(ops)

\* Nothing but clrch and close follows the failed operation.
NothingAfterFailure(ops) ==
    \A k \in DOMAIN ops : k > FailedOp(ops) => ops[k].op \in {"clrch", "close"}

C20_NoRetry ==
    (BitChecked /\ store_failed) =>
        /\ Returned /\ result = FALSE
        /\ last.failed
        /\ NothingAfterFailure(last.ops)


(***************************************************************************)
(* C21.  The empty-cache value never hits: with current_record = -1 the     *)
(* test rec != current_record is true for the record number of every bit   *)
(* position, so a bit check on an empty cache takes the load path and      *)
(* tests a bit only after the positioning and the read of a whole record;  *)
(* and once rec is stored in the int16_t current_record, the test against  *)
(* the same rec is a hit and against any other record a miss, also for     *)
(* the record numbers above INT16_MAX, which are stored as negative        *)
(* values.  Record numbers range over 0 .. LastRecord.                     *)
(***************************************************************************)
\* The last operation of a load: the read of one whole record.
FullRecordRead(v, ops) ==
    ops # <<>> /\ ops[Len(ops)] = Op("basin", <<RECORD_SIZE(v)>>)

\* The operations that position the store at record rec: the POSITION
\* command with the 1-based record number (REL), the reopening of the file
\* and the skipping of rec whole records (SEQ).
Positioned(v, rec, ops) ==
    IF v = "REL"
    THEN \E k \in DOMAIN ops :
            /\ k < Len(ops)
            /\ ops[k] = Op("bsout", <<80, bloom_secondary, (rec + 1) % 256,
                                      (rec + 1) \div 256, 1>>)
    ELSE /\ Len(ops) > 3
         /\ ops[Len(ops) - 3] = Op("open", <<bloom_lfn>>)
         /\ ops[Len(ops) - 2] = Op("chkin", <<bloom_lfn>>)
         /\ ops[Len(ops) - 1] = Op("basin", <<rec * RECORD_SIZE_SEQ>>)

C22_ProgressCounterBound ==
    version = "REL" =>
        /\ (pc = "check" /\ i = 0) => period_count = 0
        /\ BitChecked =>
              /\ period_count <= Cardinality(Examined)
              /\ period_count >= Len(last.loads)
        /\ period_count <= NUM_HASH_FUNCTIONS
        /\ Returned =>
              /\ spaces_needed = PROMPT_LENGTH - CHECKING_LENGTH - period_count
              /\ spaces_needed \in 5..10
        /\ pc = "start" =>
              \A count \in 0..NUM_HASH_FUNCTIONS :
                  /\ spaces_needed_for(count) = PROMPT_LENGTH - CHECKING_LENGTH - count
                  /\ spaces_needed_for(count) \in 5..10

\* A second query in a row that loaded a record for each of three
\* positions: three periods, seven spaces.
C22_Witness ==
    /\ version = "REL" /\ Returned
    /\ last.entry # -1
    /\ period_count = 3
    /\ spaces_needed = 7

=============================================================================
